---- MODULE Spec2Model ----
(***************************************************************************)
(* Model of PowerBIExporter.export_power_bi_report (src/BiExporter.py):    *)
(* the attempt loop, the poll sub-loop, the interpretation of the poll     *)
(* outcome and the artifact fetch.  Every await (network call or           *)
(* asyncio.sleep) is one action; the synchronous code between awaits is    *)
(* split at the loop heads and at the except clause.                       *)
(*                                                                         *)
(* Time is in seconds and is kept as timers rather than as an absolute     *)
(* clock: `elapsed` is the value of time.time() - start_time that line 98  *)
(* compares with the timeout, and `sinceObserved` is the time that has     *)
(* passed since the latest terminal snapshot was received.                 *)
(***************************************************************************)
EXTENDS Integers, Sequences, FiniteSets, TLC

\* ---------------------------------------------------------------- bounds
MaxMinutes == 1        \* polling_timeout_minutes ranges over 0..MaxMinutes
MaxLatency == 1        \* a network call or a sleep overshoot takes 0..MaxLatency s
MaxRetryAfter == 2     \* a retryAfter value ranges over 0..MaxRetryAfter

\* ------------------------------------------------------ program constants
max_retries == 3
PollInterval == 5
SecondsPerMinute == 60

\* --------------------------------------------------- server-side domains
Latencies == 0..MaxLatency
Locations == {"L1", "L2"}
ReportNames == {"Sales", "Q.1"}
Extensions == {"png", "pdf"}
Contents == {"bytesA", "bytesB"}
NonTerminalStates == {"NotStarted", "Running"}

SUCCEEDED == "Succeeded"
FAILED == "Failed"

\* The value None of poll_export_request (timed out), as a snapshot record.
None ==
  [isNone |-> TRUE, status |-> "", hasRetryAfter |-> FALSE, retryAfter |-> 0,
   resourceLocation |-> "", reportName |-> "", resourceFileExtension |-> ""]

\* JSON bodies the status endpoint can answer with a terminal state; a
\* retryAfter, when present, is a number of seconds.
FailedSnapshots ==
  { [isNone |-> FALSE, status |-> FAILED, hasRetryAfter |-> hr[1], retryAfter |-> hr[2],
     resourceLocation |-> "", reportName |-> "", resourceFileExtension |-> ""] :
       hr \in ({<<FALSE, 0>>} \cup ({TRUE} \X (0..MaxRetryAfter))) }

\* A Succeeded body carries resourceLocation, reportName and
\* resourceFileExtension, the keys lines 109 and 116 index.
SucceededSnapshots ==
  { [isNone |-> FALSE, status |-> SUCCEEDED, hasRetryAfter |-> FALSE, retryAfter |-> 0,
     resourceLocation |-> l, reportName |-> n, resourceFileExtension |-> e] :
       l \in Locations, n \in ReportNames, e \in Extensions }

TerminalSnapshots == FailedSnapshots \cup SucceededSnapshots

\* JSON bodies with any other state.
PendingSnapshots ==
  { [isNone |-> FALSE, status |-> st, hasRetryAfter |-> FALSE, retryAfter |-> 0,
     resourceLocation |-> "", reportName |-> "", resourceFileExtension |-> ""] :
       st \in NonTerminalStates }

\* Every 2xx body of the status endpoint.
StatusBodies == TerminalSnapshots \cup PendingSnapshots

\* The id in the body of the 2xx answer to the n-th ExportTo request of
\* coroutine who: every export job the service creates has an id of its own.
HandleOf(who, n) == (who - 1) * max_retries + n

\* How the call ends: the dict of get_exported_file, None, or an exception.
Running == [kind |-> "running", content |-> "", filename |-> "", exc |-> ""]
ReturnNone == [kind |-> "None", content |-> "", filename |-> "", exc |-> ""]
Raised(e) == [kind |-> "raised", content |-> "", filename |-> "", exc |-> e]

\* The locals of a coroutine that has been created but has not run yet, with
\* polling_timeout_minutes = t, as a frame (see Frame below).
InitialFrame(t) ==
  [pc |-> "loop", timeout |-> t, attempt |-> 0, export_id |-> 0, export |-> None,
   elapsed |-> 0, exc |-> "", result |-> Running, submissions |-> 0,
   lastAwait |-> "none", lastOutcome |-> "none", sinceObserved |-> 0,
   requestedUrl |-> "", servedContent |-> "", lastBody |-> None, polledHandle |-> 0]

\* No second coroutine exists.
NoFrame == [InitialFrame(0) EXCEPT !.pc = "absent"]

VARIABLES
  pc,            \* position of the coroutine
  timeout,       \* polling_timeout_minutes
  attempt,       \* position of `for attempt in range(max_retries)`
  export_id,     \* handle returned by post_export_request (0: not yet bound)
  export,        \* value returned by poll_export_request
  elapsed,       \* time.time() - start_time inside poll_export_request
  exc,           \* exception in flight ("" when none)
  result,        \* how the invocation ended
  \* history
  submissions,   \* number of post_export_request calls issued
  lastAwait,     \* the last awaited operation that returned or raised
  lastOutcome,   \* how the latest finished attempt ended
  sinceObserved, \* time since the latest terminal snapshot was received (a timer
                 \* that is stopped and cleared when the next POST is issued)
  requestedUrl,  \* url of the latest artifact GET
  servedContent, \* body the server sent for the latest artifact GET
  lastBody,      \* body of the latest status GET answer for the current handle
  polledHandle,   \* export id in the url of the latest status GET (0: none yet)
  running,       \* which coroutine holds the thread (1 or 2)
  parked         \* frame of the other coroutine while it is suspended

vars == <<pc, timeout, attempt, export_id, export, elapsed, exc, result,
          submissions, lastAwait, lastOutcome, sinceObserved, requestedUrl, servedContent,
          lastBody, polledHandle,
          running, parked>>

\* The locals of the running coroutine (and its history), as saved by the
\* event loop while another coroutine runs.
Frame ==
  [pc |-> pc, timeout |-> timeout, attempt |-> attempt, export_id |-> export_id,
   export |-> export, elapsed |-> elapsed, exc |-> exc, result |-> result,
   submissions |-> submissions, lastAwait |-> lastAwait, lastOutcome |-> lastOutcome,
   sinceObserved |-> sinceObserved, requestedUrl |-> requestedUrl,
   servedContent |-> servedContent, lastBody |-> lastBody, polledHandle |-> polledHandle]

\* The locals of a coroutine at the time it is created.
InitLocals ==
  /\ pc = "loop"
  /\ timeout \in 0..MaxMinutes
  /\ attempt = 0
  /\ export_id = 0
  /\ export = None
  /\ elapsed = 0
  /\ exc = ""
  /\ result = Running
  /\ submissions = 0
  /\ lastAwait = "none"
  /\ lastOutcome = "none"
  /\ sinceObserved = 0
  /\ requestedUrl = ""
  /\ servedContent = ""
  /\ lastBody = None
  /\ polledHandle = 0

\* One invocation, awaited on its own (main, lines 136-141).
Init ==
  /\ InitLocals
  /\ running = 1
  /\ parked = NoFrame

\* ------------------------------------------------------------- helpers
\* Variant: the loop runs once more than max_retries.
RangeHasNext_OneMore(a) == a <= max_retries

\* Variant: a handle that is already bound is kept.
Rebind_KeepFirst(old, new) == IF old = 0 THEN new ELSE old

\* line 58: export_id = await self.post_export_request(...)
Rebind(old, new) == new

\* line 56: range(max_retries) still has a value at position a.
RangeHasNext(a) == a < max_retries

\* Variants: every attempt is treated as the final one; no attempt is.
IsFinalAttempt_Always(a) == TRUE

IsFinalAttempt_Never(a) == FALSE

\* Variant: the first attempt is taken for the final one.
IsFinalAttempt_First(a) == a = 0

\* line 72: attempt == max_retries - 1
IsFinalAttempt(a) == a = max_retries - 1

\* Variant: the deadline itself still counts as inside the window.
PollWindowOpen_Inclusive(el, m) == el <= m * SecondsPerMinute

\* line 98: time.time() - start_time < polling_timeout_minutes * 60
PollWindowOpen(el, m) == el < m * SecondsPerMinute

\* Variant: only Succeeded ends the sub-loop.
IsTerminal_SucceededOnly(st) == st = SUCCEEDED

\* line 103: result['status'] in [SUCCEEDED, FAILED]
IsTerminal(st) == st \in {SUCCEEDED, FAILED}

\* line 61: export is None or export['status'] == FAILED
IsFailure(e) == e.isNone \/ e.status = FAILED

\* Variant: the retryAfter key is taken to be always present.
HasRetryAfter_Always(e) == TRUE

\* line 62: 'retryAfter' in export (for a dict)
HasRetryAfter(e) == e.hasRetryAfter

\* Variant: the artifact is fetched from a fixed url.
ArtifactUrl_Fixed(e) == "L1"

\* line 109: url = export['resourceLocation']
ArtifactUrl(e) == e.resourceLocation

\* Variant: the separator is left out of the filename.
Filename_NoDot(e) == e.reportName \o e.resourceFileExtension

\* line 116: f"{export['reportName']}.{export['resourceFileExtension']}"
Filename(e) == e.reportName \o "." \o e.resourceFileExtension

\* lines 114-117: the dict get_exported_file returns
Artifact(c, e) == [kind |-> "artifact", content |-> c, filename |-> Filename(e), exc |-> ""]

\* Variants: the sleep returns without waiting for d; no time passes at all.
WakeTime_NoDelay(t, d, o) == t + o

WakeTime_Frozen(t, d, o) == t

\* Variant: the sleep lasts half the requested time.
WakeTime_Halved(t, d, o) == t + (d \div 2) + o

\* asyncio.sleep(d) entered when a timer shows t resumes when it shows
\* t + d or more (o is the overshoot).
WakeTime(t, d, o) == t + d + o

\* ------------------------------------------------------------- actions
\* line 56, a value remains: enter the try block.
LoopNext ==
  /\ pc = "loop"
  /\ RangeHasNext(attempt)
  /\ pc' = "post"
  /\ UNCHANGED <<timeout, attempt, export_id, export, elapsed, exc, result,
                 submissions, lastAwait, lastOutcome, sinceObserved, requestedUrl,
                 servedContent, lastBody, polledHandle, running, parked>>

\* Variant: falling out of the loop raises instead of returning None.
LoopExit_Raises ==
  /\ pc = "loop"
  /\ ~RangeHasNext(attempt)
  /\ result' = Raised("RetriesExhausted")
  /\ pc' = "done"
  /\ UNCHANGED <<timeout, attempt, export_id, export, elapsed, exc, submissions,
                 lastAwait, lastOutcome, sinceObserved, requestedUrl, servedContent,
                 lastBody, polledHandle, running, parked>>

\* lines 56 and 75: the range is exhausted, return None.
LoopExit ==
  /\ pc = "loop"
  /\ ~RangeHasNext(attempt)
  /\ result' = ReturnNone
  /\ pc' = "done"
  /\ UNCHANGED <<timeout, attempt, export_id, export, elapsed, exc, submissions,
                 lastAwait, lastOutcome, sinceObserved, requestedUrl, servedContent,
                 lastBody, polledHandle, running, parked>>

\* lines 58, 77-93: the POST is issued and answers 2xx with an id.
PostOk ==
  /\ pc = "post"
  /\ submissions' = submissions + 1
  /\ export_id' = Rebind(export_id, HandleOf(running, submissions + 1))
  /\ sinceObserved' = 0
  /\ lastAwait' = "post"
  /\ pc' = "poll_start"
  /\ UNCHANGED <<timeout, attempt, export, elapsed, exc, result, lastOutcome,
                 requestedUrl, servedContent, lastBody, polledHandle, running, parked>>

\* lines 58, 89-93: the POST is issued and fails (connection error,
\* raise_for_status, body without id).
PostFault ==
  /\ pc = "post"
  /\ submissions' = submissions + 1
  /\ sinceObserved' = 0
  /\ lastAwait' = "post"
  /\ exc' = "ClientError"
  /\ lastOutcome' = "fault_post"
  /\ pc' = "except"
  /\ UNCHANGED <<timeout, attempt, export_id, export, elapsed, result, requestedUrl,
                 servedContent, lastBody, polledHandle, running, parked>>

\* lines 59, 96-97: poll_export_request is entered, start_time = time.time().
PollStart ==
  /\ pc = "poll_start"
  /\ elapsed' = 0
  /\ pc' = "poll_check"
  /\ lastBody' = None
  /\ UNCHANGED <<timeout, attempt, export_id, export, exc, result, submissions,
                 lastAwait, lastOutcome, sinceObserved, requestedUrl, servedContent,
                 polledHandle, running, parked>>

\* lines 96 and 98-100, condition true: the status GET for export_id is sent.
PollContinue ==
  /\ pc = "poll_check"
  /\ PollWindowOpen(elapsed, timeout)
  /\ pc' = "poll_get"
  /\ polledHandle' = export_id
  /\ UNCHANGED <<timeout, attempt, export_id, export, elapsed, exc, result,
                 submissions, lastAwait, lastOutcome, sinceObserved, requestedUrl,
                 servedContent, lastBody, running, parked>>

\* lines 98, 106 and 59: condition false, poll_export_request returns None.
PollTimeout ==
  /\ pc = "poll_check"
  /\ ~PollWindowOpen(elapsed, timeout)
  /\ export' = None
  /\ elapsed' = 0
  /\ pc' = "interpret"
  /\ UNCHANGED <<timeout, attempt, export_id, exc, result, submissions, lastAwait,
                 lastOutcome, sinceObserved, requestedUrl, servedContent, lastBody,
                 polledHandle, running, parked>>

\* lines 99-104 and 59: the status GET answers with a state line 103 finds
\* terminal; the body is returned and bound to export.
PollTerminal ==
  /\ pc = "poll_get"
  /\ \E body \in StatusBodies :
       /\ IsTerminal(body.status)
       /\ lastBody' = body
       /\ export' = body
  /\ elapsed' = 0
  /\ sinceObserved' = 0
  /\ lastAwait' = "poll"
  /\ pc' = "interpret"
  /\ UNCHANGED <<timeout, attempt, export_id, exc, result, submissions, lastOutcome,
                 requestedUrl, servedContent, polledHandle, running, parked>>

\* lines 99-103: the status GET answers with a state line 103 does not find
\* terminal.
PollPending ==
  /\ pc = "poll_get"
  /\ \E body \in StatusBodies, d \in Latencies :
       /\ ~IsTerminal(body.status)
       /\ lastBody' = body
       /\ elapsed' = elapsed + d
  /\ lastAwait' = "poll"
  /\ pc' = "poll_sleep"
  /\ UNCHANGED <<timeout, attempt, export_id, export, exc, result, submissions,
                 lastOutcome, sinceObserved, requestedUrl, servedContent, polledHandle,
                 running, parked>>

\* lines 99-102: the status GET fails.
PollFault ==
  /\ pc = "poll_get"
  /\ elapsed' = 0
  /\ lastAwait' = "poll"
  /\ exc' = "ClientError"
  /\ lastOutcome' = "fault_poll"
  /\ pc' = "except"
  /\ UNCHANGED <<timeout, attempt, export_id, export, result, submissions,
                 sinceObserved, requestedUrl, servedContent, lastBody, polledHandle,
                 running, parked>>

\* line 105: await asyncio.sleep(5)
PollSleep ==
  /\ pc = "poll_sleep"
  /\ \E o \in Latencies : elapsed' = WakeTime(elapsed, PollInterval, o)
  /\ lastAwait' = "sleep_poll"
  /\ pc' = "poll_check"
  /\ UNCHANGED <<timeout, attempt, export_id, export, exc, result, submissions,
                 lastOutcome, sinceObserved, requestedUrl, servedContent, lastBody,
                 polledHandle, running, parked>>

\* Variant: a timed-out poll makes the call return None.
InterpretNone_ReturnsNone ==
  /\ pc = "interpret"
  /\ IsFailure(export)
  /\ export.isNone
  /\ result' = ReturnNone
  /\ lastOutcome' = "timeout"
  /\ pc' = "done"
  /\ UNCHANGED <<timeout, attempt, export_id, export, elapsed, exc, submissions,
                 lastAwait, sinceObserved, requestedUrl, servedContent, lastBody,
                 polledHandle, running, parked>>

\* lines 61-62 with export None: `'retryAfter' in None` raises TypeError.
InterpretNone ==
  /\ pc = "interpret"
  /\ IsFailure(export)
  /\ export.isNone
  /\ exc' = "TypeError"
  /\ lastOutcome' = "timeout"
  /\ pc' = "except"
  /\ UNCHANGED <<timeout, attempt, export_id, export, elapsed, result, submissions,
                 lastAwait, sinceObserved, requestedUrl, servedContent, lastBody,
                 polledHandle, running, parked>>

\* lines 61-63: Failed with a retryAfter key, go to sleep.
InterpretFailedRetry ==
  /\ pc = "interpret"
  /\ IsFailure(export)
  /\ ~export.isNone
  /\ HasRetryAfter(export)
  /\ pc' = "retry_sleep"
  /\ UNCHANGED <<timeout, attempt, export_id, export, elapsed, exc, result,
                 submissions, lastAwait, lastOutcome, sinceObserved, requestedUrl,
                 servedContent, lastBody, polledHandle, running, parked>>

\* lines 61-62, 65: Failed without a retryAfter key, return None.
InterpretFailedFinal ==
  /\ pc = "interpret"
  /\ IsFailure(export)
  /\ ~export.isNone
  /\ ~HasRetryAfter(export)
  /\ lastOutcome' = "failed_final"
  /\ result' = ReturnNone
  /\ pc' = "done"
  /\ UNCHANGED <<timeout, attempt, export_id, export, elapsed, exc, submissions,
                 lastAwait, sinceObserved, requestedUrl, servedContent, lastBody,
                 polledHandle, running, parked>>

\* Variant: the artifact is fetched for any snapshot, whatever its status.
InterpretSucceeded_AnyStatus ==
  /\ pc = "interpret"
  /\ ~export.isNone
  /\ pc' = "get_file"
  /\ UNCHANGED <<timeout, attempt, export_id, export, elapsed, exc, result,
                 submissions, lastAwait, lastOutcome, sinceObserved, requestedUrl,
                 servedContent, lastBody, polledHandle, running, parked>>

\* lines 61, 67-68: Succeeded, call get_exported_file.
InterpretSucceeded ==
  /\ pc = "interpret"
  /\ ~IsFailure(export)
  /\ export.status = SUCCEEDED
  /\ pc' = "get_file"
  /\ UNCHANGED <<timeout, attempt, export_id, export, elapsed, exc, result,
                 submissions, lastAwait, lastOutcome, sinceObserved, requestedUrl,
                 servedContent, lastBody, polledHandle, running, parked>>

\* Variant: the sleep is skipped when no attempt remains.
RetrySleep_SkippedOnFinal ==
  /\ pc = "retry_sleep"
  /\ \E o \in Latencies :
       sinceObserved' = IF IsFinalAttempt(attempt) THEN sinceObserved
                        ELSE WakeTime(sinceObserved, export.retryAfter, o)
  /\ lastAwait' = "sleep_retry"
  /\ lastOutcome' = "failed_retry"
  /\ attempt' = attempt + 1
  /\ pc' = "loop"
  /\ UNCHANGED <<timeout, export_id, export, elapsed, exc, result, submissions,
                 requestedUrl, servedContent, lastBody, polledHandle, running, parked>>

\* lines 63-64: await asyncio.sleep(export['retryAfter']); continue
RetrySleep ==
  /\ pc = "retry_sleep"
  /\ \E o \in Latencies : sinceObserved' = WakeTime(sinceObserved, export.retryAfter, o)
  /\ lastAwait' = "sleep_retry"
  /\ lastOutcome' = "failed_retry"
  /\ attempt' = attempt + 1
  /\ pc' = "loop"
  /\ UNCHANGED <<timeout, export_id, export, elapsed, exc, result, submissions,
                 requestedUrl, servedContent, lastBody, polledHandle, running, parked>>

\* lines 68, 108-117: the artifact GET answers 2xx; the dict is returned.
GetFileOk ==
  /\ pc = "get_file"
  /\ requestedUrl' = ArtifactUrl(export)
  /\ \E c \in Contents, d \in Latencies :
       /\ servedContent' = c
       /\ result' = Artifact(c, export)
       /\ sinceObserved' = sinceObserved + d
  /\ lastAwait' = "get_file"
  /\ lastOutcome' = "succeeded"
  /\ pc' = "done"
  /\ UNCHANGED <<timeout, attempt, export_id, export, elapsed, exc, submissions,
                 lastBody, polledHandle, running, parked>>

\* lines 68, 110-113: the artifact GET fails.
GetFileFault ==
  /\ pc = "get_file"
  /\ requestedUrl' = ArtifactUrl(export)
  /\ \E d \in Latencies : sinceObserved' = sinceObserved + d
  /\ lastAwait' = "get_file"
  /\ exc' = "ClientError"
  /\ lastOutcome' = "fault_get_file"
  /\ pc' = "except"
  /\ UNCHANGED <<timeout, attempt, export_id, export, elapsed, result, submissions,
                 servedContent, lastBody, polledHandle, running, parked>>

\* lines 70-73 on the final attempt: re-raise.
ExceptRaise ==
  /\ pc = "except"
  /\ IsFinalAttempt(attempt)
  /\ result' = Raised(exc)
  /\ pc' = "done"
  /\ UNCHANGED <<timeout, attempt, export_id, export, elapsed, exc, submissions,
                 lastAwait, lastOutcome, sinceObserved, requestedUrl, servedContent,
                 lastBody, polledHandle, running, parked>>

\* lines 70-72 on an earlier attempt: the exception is printed and dropped,
\* the for loop takes its next value.
ExceptSwallow ==
  /\ pc = "except"
  /\ ~IsFinalAttempt(attempt)
  /\ exc' = ""
  /\ attempt' = attempt + 1
  /\ pc' = "loop"
  /\ UNCHANGED <<timeout, export_id, export, elapsed, result, submissions, lastAwait,
                 lastOutcome, sinceObserved, requestedUrl, servedContent, lastBody,
                 polledHandle, running, parked>>

\* Positions at which the coroutine is suspended in an await.
AwaitPoints == {"post", "poll_get", "get_file", "poll_sleep", "retry_sleep"}

\* Variant: the handle is kept in one place for all coroutines (an attribute
\* of self), so a switch does not bring back the handle of the resumed one.
Switch_SharedHandle ==
  /\ pc \in AwaitPoints \cup {"done"}
  /\ parked.pc \in AwaitPoints \cup {"loop"}
  /\ parked' = Frame
  /\ running' = 3 - running
  /\ pc' = parked.pc
  /\ timeout' = parked.timeout
  /\ attempt' = parked.attempt
  /\ export_id' = export_id
  /\ export' = parked.export
  /\ elapsed' = parked.elapsed
  /\ exc' = parked.exc
  /\ result' = parked.result
  /\ submissions' = parked.submissions
  /\ lastAwait' = parked.lastAwait
  /\ lastOutcome' = parked.lastOutcome
  /\ sinceObserved' = parked.sinceObserved
  /\ requestedUrl' = parked.requestedUrl
  /\ servedContent' = parked.servedContent
  /\ lastBody' = parked.lastBody
  /\ polledHandle' = parked.polledHandle

\* The running coroutine is suspended in an await (or has returned) and the
\* event loop resumes the other one: the locals of each coroutine are its own
\* (lines 53-75 assign no attribute of self and no global).
Switch ==
  /\ pc \in AwaitPoints \cup {"done"}
  /\ parked.pc \in AwaitPoints \cup {"loop"}
  /\ parked' = Frame
  /\ running' = 3 - running
  /\ pc' = parked.pc
  /\ timeout' = parked.timeout
  /\ attempt' = parked.attempt
  /\ export_id' = parked.export_id
  /\ export' = parked.export
  /\ elapsed' = parked.elapsed
  /\ exc' = parked.exc
  /\ result' = parked.result
  /\ submissions' = parked.submissions
  /\ lastAwait' = parked.lastAwait
  /\ lastOutcome' = parked.lastOutcome
  /\ sinceObserved' = parked.sinceObserved
  /\ requestedUrl' = parked.requestedUrl
  /\ servedContent' = parked.servedContent
  /\ lastBody' = parked.lastBody
  /\ polledHandle' = parked.polledHandle

Next ==
  \/ LoopNext
  \/ LoopExit
  \/ PostOk
  \/ PostFault
  \/ PollStart
  \/ PollContinue
  \/ PollTimeout
  \/ PollTerminal
  \/ PollPending
  \/ PollFault
  \/ PollSleep
  \/ InterpretNone
  \/ InterpretFailedRetry
  \/ InterpretFailedFinal
  \/ InterpretSucceeded
  \/ RetrySleep
  \/ GetFileOk
  \/ GetFileFault
  \/ ExceptRaise
  \/ ExceptSwallow

Spec == Init /\ [][Next]_vars

\* Two invocations run as tasks of one event loop (asyncio.gather of two
\* export_power_bi_report calls on one PowerBIExporter); the second has not
\* started yet and is called with polling_timeout_minutes = 0, so that each
\* of its polls times out at once.  While a coroutine is parked its timers
\* stand still: the time the other one holds the thread shows up as latency
\* or sleep overshoot.
ConcInit ==
  /\ InitLocals
  /\ running = 1
  /\ parked = InitialFrame(0)

ConcNext ==
  \/ Next
  \/ Switch

ConcSpec == ConcInit /\ [][ConcNext]_vars

\* Every network call returns or fails and every sleep ends, so the coroutine
\* always takes its next step.
FairSpec == Spec /\ WF_vars(Next)

TypeOK ==
  /\ pc \in {"loop", "post", "poll_start", "poll_check", "poll_get", "poll_sleep",
             "interpret", "retry_sleep", "get_file", "except", "done"}
  /\ attempt \in 0..max_retries
  /\ submissions \in 0..max_retries
  /\ result.kind \in {"running", "artifact", "None", "raised"}
  /\ running \in {1, 2}

\* ===================================================================
\* Properties
\* ===================================================================

\* C1: once a poll sub-loop has timed out (poll_export_request returned None),
\* the invocation issues no further submission or other awaited call and its
\* result is None, never a raised exception.
C1_TimeoutEndsWithNone ==
  [][lastOutcome = "timeout" =>
       /\ submissions' = submissions
       /\ lastAwait' = lastAwait
       /\ result'.kind \in {"running", "None"}]_vars

\* C2: a Failed snapshot without retryAfter makes the invocation return None in
\* its next step, with no further submission, fetch or sleep; nothing happens
\* afterwards, and on the first attempt exactly one submission was made.
C2_FailedWithoutRetryAfterReturnsNone ==
  /\ [][(pc = "interpret" /\ ~export.isNone /\ export.status = FAILED
           /\ ~export.hasRetryAfter) =>
          /\ pc' = "done"
          /\ result' = ReturnNone
          /\ submissions' = submissions
          /\ lastAwait' = lastAwait
          /\ attempt' = attempt]_vars
  /\ [][lastOutcome # "failed_final"]_vars
  /\ [](lastOutcome = "failed_final" =>
          /\ pc = "done"
          /\ result = ReturnNone
          /\ submissions = attempt + 1
          /\ (attempt = 0 => submissions = 1))

C2_Witness ==
  /\ pc = "done"
  /\ lastOutcome = "failed_final"
  /\ attempt = 0
  /\ submissions = 1
  /\ result = ReturnNone

\* C3: when the previous attempt ended with a Failed snapshot carrying
\* retryAfter = R, a submission is issued only once at least R seconds have
\* passed since that snapshot was received.
C3_ResubmitOnlyAfterRetryAfter ==
  /\ [][(submissions' # submissions /\ lastOutcome = "failed_retry") =>
          /\ export.status = FAILED
          /\ export.hasRetryAfter
          /\ sinceObserved >= export.retryAfter]_vars
  /\ [](pc = "retry_sleep" => (export.status = FAILED /\ export.hasRetryAfter))

C3_Witness ==
  /\ pc = "poll_start"
  /\ lastOutcome = "failed_retry"
  /\ export.retryAfter = MaxRetryAfter
  /\ submissions = 2

\* C4: at most max_retries = 3 submissions are made, and every attempt makes
\* exactly one: the number of submissions is the number of attempts started.
C4_OneSubmissionPerAttempt ==
  /\ submissions <= 3
  /\ (pc \in {"loop", "post"} => submissions = attempt)
  /\ (pc \notin {"loop", "post", "done"} => submissions = attempt + 1)
  /\ (pc = "done" => submissions = IF result = ReturnNone /\ lastOutcome = "failed_retry"
                                     THEN attempt ELSE attempt + 1)

C4_Witness ==
  /\ pc = "done"
  /\ submissions = 3
  /\ lastOutcome = "failed_retry"

\* C5: a client fault of the submission or of a status fetch on an attempt
\* before the last is dropped, the next attempt starts with a new submission,
\* and after a failed submission nothing is awaited before the next one.
C5_FaultSwallowedBeforeFinalAttempt ==
  /\ [][(pc = "except" /\ exc = "ClientError"
           /\ lastOutcome \in {"fault_post", "fault_poll"}
           /\ attempt < max_retries - 1) =>
          /\ pc' = "loop"
          /\ attempt' = attempt + 1
          /\ result' = Running
          /\ submissions' = submissions
          /\ lastAwait' = lastAwait]_vars
  /\ [][(pc = "loop" /\ lastOutcome \in {"fault_post", "fault_poll"}) =>
          (pc' = "post" /\ lastAwait' = lastAwait)]_vars
  /\ [][(pc = "post" /\ lastOutcome \in {"fault_post", "fault_poll"}) =>
          submissions' = submissions + 1]_vars
  /\ [](pc = "post" /\ lastOutcome = "fault_post" => lastAwait = "post")

C5_Witness ==
  /\ pc = "poll_start"
  /\ attempt = 1
  /\ submissions = 2
  /\ lastOutcome = "fault_post"
  /\ result = Running

\* C6: a client fault of the submission or of a status fetch on the final
\* attempt is re-raised: the invocation ends with that exception, not with
\* None and not with an artifact.
C6_FaultOnFinalAttemptPropagates ==
  /\ [][(pc = "except" /\ exc = "ClientError"
           /\ lastOutcome \in {"fault_post", "fault_poll"}
           /\ attempt = max_retries - 1) =>
          (pc' = "done" /\ result' = Raised("ClientError"))]_vars
  /\ [](pc = "done" /\ lastOutcome \in {"fault_post", "fault_poll"} =>
          (attempt = max_retries - 1 /\ result = Raised("ClientError")))

C6_Witness ==
  /\ pc = "done"
  /\ lastOutcome = "fault_poll"
  /\ submissions = 3
  /\ result = Raised("ClientError")

\* C7: when all max_retries attempts are used up and the last one ended with a
\* Failed snapshot carrying retryAfter, the invocation returns None.
C7_ExhaustedAttemptsReturnNone ==
  (pc = "done" /\ lastOutcome = "failed_retry") =>
    /\ submissions = max_retries
    /\ attempt = max_retries
    /\ result = ReturnNone

C7_Witness ==
  /\ pc = "done"
  /\ lastOutcome = "failed_retry"
  /\ submissions = max_retries
  /\ result = ReturnNone
  /\ export.retryAfter = 1

\* C8: a returned artifact is named reportName + "." + resourceFileExtension of
\* the Succeeded snapshot held by the attempt, and its content is the body the
\* artifact GET delivered.
C8_ArtifactNameAndContent ==
  result.kind = "artifact" =>
    /\ export.status = SUCCEEDED
    /\ lastOutcome = "succeeded"
    /\ result.filename = export.reportName \o "." \o export.resourceFileExtension
    /\ result.content = servedContent
    /\ servedContent \in Contents

C8_Witness ==
  /\ result.kind = "artifact"
  /\ export.reportName = "Q.1"
  /\ export.resourceFileExtension = "pdf"
  /\ result.filename = "Q.1.pdf"
  /\ result.content = "bytesB"
  /\ attempt = 1

\* C9: the artifact GET is issued only right after a status fetch of the
\* attempt returned Succeeded, it goes to that snapshot's resourceLocation, an
\* artifact is returned only that way, and after a successful artifact GET
\* nothing else happens.
C9_SucceededIsTheOnlySuccessExit ==
  /\ [](pc = "get_file" =>
          (~export.isNone /\ export.status = SUCCEEDED /\ lastAwait = "poll"))
  /\ [][pc = "get_file" =>
          /\ requestedUrl' = export.resourceLocation
          /\ pc' \in {"done", "except"}]_vars
  /\ [][requestedUrl' # requestedUrl => pc = "get_file"]_vars
  /\ [](result.kind = "artifact" =>
          /\ pc = "done"
          /\ export.status = SUCCEEDED
          /\ lastAwait = "get_file"
          /\ requestedUrl = export.resourceLocation)
  /\ [][lastOutcome # "succeeded"]_vars

C9_Witness ==
  /\ pc = "done"
  /\ result.kind = "artifact"
  /\ requestedUrl = "L2"
  /\ export.resourceLocation = "L2"
  /\ submissions = 1

\* C10: every invocation ends, and it ends in exactly one of three ways: an
\* artifact with content and filename, None, or a raised exception.
WellFormedResult ==
  \/ /\ result.kind = "artifact"
     /\ result.content \in Contents
     /\ result.filename # ""
     /\ result.exc = ""
  \/ result = ReturnNone
  \/ /\ result.kind = "raised"
     /\ result.exc \in {"ClientError", "TypeError"}
     /\ result.content = ""
     /\ result.filename = ""

C10_EndsInOneOfThreeOutcomes ==
  /\ <>(pc = "done")
  /\ [](pc = "done" => WellFormedResult)
  /\ [](pc # "done" => result = Running)

C10_Witness ==
  /\ pc = "done"
  /\ timeout = MaxMinutes
  /\ lastOutcome = "timeout"
  /\ result = Raised("TypeError")

\* C12: a status GET is sent only after the check of line 98 found the elapsed
\* time strictly below the timeout; when the check finds the deadline reached
\* the sub-loop hands back None without raising and without another GET, and
\* with a timeout of 0 no status GET is ever sent.
C12_FetchOnlyBeforeDeadline ==
  /\ [](pc = "poll_get" => elapsed < timeout * 60)
  /\ [][(pc = "poll_check" /\ elapsed >= timeout * 60) =>
          /\ pc' = "interpret"
          /\ export' = None
          /\ exc' = exc
          /\ polledHandle' = polledHandle
          /\ lastAwait' = lastAwait]_vars
  /\ [][(polledHandle' # polledHandle \/ (pc # "poll_get" /\ pc' = "poll_get")) =>
          (pc = "poll_check" /\ elapsed < timeout * 60)]_vars
  /\ [](timeout = 0 =>
          /\ pc \notin {"poll_get", "poll_sleep"}
          /\ lastAwait \notin {"poll", "sleep_poll"}
          /\ polledHandle = 0)

C12_Witness ==
  /\ pc = "interpret"
  /\ export.isNone
  /\ timeout = 1
  /\ lastAwait = "sleep_poll"
  /\ polledHandle = export_id
  /\ lastBody.status = "Running"

\* C13: once a status GET has answered Succeeded or Failed the sub-loop is
\* left, so no further GET is sent for that handle; the snapshot the attempt
\* loop interprets is that answer, and export never holds a non-terminal body.
C13_FirstTerminalSnapshotEndsPolling ==
  /\ [](lastBody.status \in {"Succeeded", "Failed"} =>
          pc \notin {"poll_check", "poll_get", "poll_sleep"})
  /\ [](pc = "interpret" =>
          (export.isNone \/ (export = lastBody /\ export.status \in {"Succeeded", "Failed"})))
  /\ [](export.isNone \/ export.status \in {"Succeeded", "Failed"})
  /\ [][(pc = "poll_get" /\ pc' = "poll_sleep") =>
          (lastBody'.status \in NonTerminalStates /\ export' = export)]_vars

C13_Witness ==
  /\ pc = "interpret"
  /\ export.status = "Failed"
  /\ export = lastBody
  /\ lastAwait = "poll"
  /\ polledHandle = export_id
  /\ attempt = 1

\* C16: every non-terminal answer is followed by asyncio.sleep(5) and then the
\* check of line 98, a status GET is sent either first in the sub-loop or
\* right after such a sleep, and a terminal answer is handed back without any
\* sleep.
C16_FiveSecondsBetweenFetches ==
  /\ [][pc = "poll_sleep" =>
          /\ pc' = "poll_check"
          /\ lastAwait' = "sleep_poll"
          /\ elapsed' >= elapsed + 5
          /\ elapsed' <= elapsed + 5 + MaxLatency]_vars
  /\ [][(pc = "poll_get" /\ exc' = exc /\ lastBody'.status \notin {"Succeeded", "Failed"}) =>
          pc' = "poll_sleep"]_vars
  /\ [](pc = "poll_sleep" => (lastAwait = "poll" /\ lastBody.status \in NonTerminalStates))
  /\ [](pc = "poll_get" => lastAwait \in {"post", "sleep_poll"})
  /\ [](pc = "interpret" /\ ~export.isNone => lastAwait = "poll")

C16_Witness ==
  /\ pc = "poll_get"
  /\ lastAwait = "sleep_poll"
  /\ lastBody.status = "NotStarted"
  /\ elapsed >= 10

\* C18: a fault of the artifact GET is dropped on an attempt before the last,
\* and the next awaited call is a new submission, not another artifact GET; on
\* the final attempt the fault is re-raised.
C18_ArtifactFaultHandledLikeOtherFaults ==
  /\ [](pc = "except" /\ lastOutcome = "fault_get_file" => exc = "ClientError")
  /\ [][(pc = "except" /\ lastOutcome = "fault_get_file" /\ attempt < max_retries - 1) =>
          /\ pc' = "loop"
          /\ attempt' = attempt + 1
          /\ result' = Running
          /\ lastAwait' = lastAwait]_vars
  /\ [][(pc \in {"loop", "post"} /\ lastOutcome = "fault_get_file") =>
          /\ lastAwait = "get_file"
          /\ pc = "loop" => (pc' = "post" /\ lastAwait' = lastAwait)
          /\ pc = "post" => (submissions' = submissions + 1 /\ lastAwait' = "post")]_vars
  /\ [][(pc = "except" /\ lastOutcome = "fault_get_file" /\ attempt = max_retries - 1) =>
          (pc' = "done" /\ result' = Raised("ClientError"))]_vars
  /\ [](pc = "done" /\ lastOutcome = "fault_get_file" => result = Raised("ClientError"))

C18_Witness ==
  /\ pc = "poll_start"
  /\ lastOutcome = "fault_get_file"
  /\ export.status = "Succeeded"
  /\ attempt = 1
  /\ submissions = 2
  /\ result = Running

\* C19: None is returned only after a Failed snapshot: one without retryAfter,
\* or one with retryAfter on the final attempt.  An invocation whose last
\* attempt ended in a poll timeout or in a fault ends with an exception.
C19_NoneOnlyAfterFailedSnapshot ==
  /\ result = ReturnNone =>
       /\ pc = "done"
       /\ ~export.isNone
       /\ export.status = "Failed"
       /\ lastOutcome \in {"failed_final", "failed_retry"}
       /\ lastOutcome = "failed_final" => ~export.hasRetryAfter
       /\ lastOutcome = "failed_retry" =>
            (export.hasRetryAfter /\ submissions = max_retries)
  /\ (pc = "done" /\ lastOutcome \in {"timeout", "fault_post", "fault_poll", "fault_get_file"}) =>
       (result.kind = "raised" /\ submissions = max_retries)

C19_Witness ==
  /\ result = ReturnNone
  /\ lastOutcome = "failed_final"
  /\ submissions = 2
  /\ lastBody.status = "Failed"

\* C20: a Failed snapshot with retryAfter = R is followed by a sleep of at
\* least R on every attempt, the final one included: when the invocation ends
\* that way it has slept R since the snapshot and then returns None.
C20_RetryAfterSleepOnFinalAttempt ==
  /\ [][(pc = "interpret" /\ ~export.isNone /\ export.status = "Failed"
           /\ export.hasRetryAfter) => pc' = "retry_sleep"]_vars
  /\ [][pc = "retry_sleep" =>
          /\ sinceObserved' >= sinceObserved + export.retryAfter
          /\ lastAwait' = "sleep_retry"]_vars
  /\ [](pc = "done" /\ lastOutcome = "failed_retry" =>
          /\ lastAwait = "sleep_retry"
          /\ sinceObserved >= export.retryAfter
          /\ submissions = max_retries
          /\ result = ReturnNone)

C20_Witness ==
  /\ pc = "done"
  /\ lastOutcome = "failed_retry"
  /\ export.retryAfter = MaxRetryAfter
  /\ sinceObserved >= MaxRetryAfter
  /\ result = ReturnNone

\* C14: the calls of an invocation follow one another: a request is answered
\* before the next one is sent, a status GET is sent only when the submission
\* of the same attempt has returned its handle, and the artifact GET only when
\* the latest status GET of the same attempt answered Succeeded.
RequestsInFlight == IF pc \in {"post", "poll_get", "get_file"} THEN {pc} ELSE {}

C14_CallsAreSequentialAndOrdered ==
  /\ [](Cardinality(RequestsInFlight) <= 1)
  /\ [][(pc \in {"post", "poll_get", "get_file"}) =>
          /\ lastAwait' = (IF pc = "poll_get" THEN "poll" ELSE pc)
          /\ pc' \notin {"post", "poll_get", "get_file"}]_vars
  /\ [](pc = "poll_get" =>
          /\ lastAwait \in {"post", "sleep_poll"}
          /\ submissions = attempt + 1
          /\ export_id = HandleOf(running, submissions)
          /\ polledHandle = export_id)
  /\ [](pc = "get_file" =>
          /\ lastAwait = "poll"
          /\ lastBody.status = "Succeeded"
          /\ export = lastBody
          /\ polledHandle = HandleOf(running, attempt + 1))

C14_Witness ==
  /\ pc = "get_file"
  /\ lastBody.status = "Succeeded"
  /\ attempt = 1
  /\ polledHandle = HandleOf(1, 2)
  /\ lastOutcome = "fault_poll"

\* C15: every status GET carries the handle returned by the submission of the
\* attempt it belongs to, never one returned in an earlier attempt.
C15_FreshHandlePerAttempt ==
  /\ (pc \in {"poll_start", "poll_check", "poll_get", "poll_sleep"} =>
        export_id = HandleOf(running, attempt + 1))
  /\ (pc = "poll_get" =>
        /\ polledHandle = HandleOf(running, attempt + 1)
        /\ \A n \in 1..attempt : polledHandle # HandleOf(running, n))

C15_Witness ==
  /\ pc = "poll_get"
  /\ attempt = 2
  /\ polledHandle = HandleOf(1, 3)
  /\ lastOutcome = "failed_retry"

\* C17: with two invocations on one event loop each coroutine polls with the
\* handles of its own submissions and interprets the snapshot of its own
\* latest status GET, its submissions and result obey the same relations as
\* when it runs alone, the steps of one leave the frame of the other
\* untouched, and while one sleeps the other can be resumed.
FrameIsOwn(f, who) ==
  /\ (f.pc \in {"poll_start", "poll_check", "poll_get", "poll_sleep"} =>
        f.export_id = HandleOf(who, f.attempt + 1))
  /\ (f.pc = "poll_get" => f.polledHandle = HandleOf(who, f.attempt + 1))
  /\ f.polledHandle \in {0} \cup {HandleOf(who, n) : n \in 1..max_retries}
  /\ (f.pc \in {"interpret", "retry_sleep", "get_file"} =>
        (f.export.isNone \/ f.export = f.lastBody))
  /\ f.submissions <= 3
  /\ (f.pc \in {"loop", "post"} => f.submissions = f.attempt)
  /\ (f.pc \notin {"loop", "post", "done"} => f.submissions = f.attempt + 1)
  /\ (f.result.kind = "artifact" =>
        (f.lastOutcome = "succeeded" /\ f.export = f.lastBody
         /\ f.requestedUrl = f.export.resourceLocation))
  /\ (f.result = ReturnNone => f.lastOutcome \in {"failed_final", "failed_retry"})
  /\ (f.result.kind = "raised" =>
        (f.submissions = 3
         /\ f.lastOutcome \in {"timeout", "fault_post", "fault_poll", "fault_get_file"}))

====
